---- MODULE Spec2Model ----
(***************************************************************************)
(* Model of packages/snap/src/index.ts and packages/snap/src/permissions.ts *)
(* (the origin-gated request router of the snap): the permission table,    *)
(* hasPermission, the lazily created module-level keyring, getEntropy and  *)
(* the two handlers onRpcRequest and onKeyringRequest.                     *)
(*                                                                         *)
(* JavaScript runs one synchronous segment at a time; a handler gives up   *)
(* control only at an await.  Every action below is one such segment: the  *)
(* code from the entry of the handler (or from the settlement of the       *)
(* promise it awaits) up to the next await or to the end of the handler.   *)
(***************************************************************************)
EXTENDS Integers, Sequences, FiniteSets, TLC

VARIABLES
    keyring,     \* index.ts:16  the module-level instance, 0 while undefined
    instances,   \* every SimpleKeyring constructed so far, in order
    pc,          \* position of each handler call
    req,         \* the arguments of each handler call
    entropy,     \* index.ts:96  the local `entropy` of each call
    inst,        \* the value `await getKeyring()` produced for each call
    outcome,     \* how the promise of each handler call settled
    raw,         \* index.ts:59  the local `entropy` of getEntropy() of each call
    trace,       \* per call: its calls to collaborators and their settlements, in order
    perm         \* one evaluation of hasPermission (SpecPerm only)

vars == <<keyring, instances, pc, req, entropy, inst, outcome, raw, trace, perm>>

callVars == <<keyring, instances, pc, req, entropy, inst, outcome, raw, trace>>

----------------------------------------------------------------------------
(* Bounds *)

\* Handler calls delivered in a behaviour of Spec.
MaxCalls == 2

\* Handler calls delivered in a behaviour of SpecRace, all of them reaching
\* getKeyring().
MaxGetters == 3

Calls == 1..(IF MaxCalls > MaxGetters THEN MaxCalls ELSE MaxGetters)

----------------------------------------------------------------------------
(* permissions.ts *)

\* The string values of the KeyringRpcMethod enum of @metamask/keyring-api.
KeyringRpcMethod ==
    [ ListAccounts        |-> "keyring_listAccounts",
      GetAccount          |-> "keyring_getAccount",
      CreateAccount       |-> "keyring_createAccount",
      FilterAccountChains |-> "keyring_filterAccountChains",
      UpdateAccount       |-> "keyring_updateAccount",
      DeleteAccount       |-> "keyring_deleteAccount",
      ExportAccount       |-> "keyring_exportAccount",
      ListRequests        |-> "keyring_listRequests",
      GetRequest          |-> "keyring_getRequest",
      SubmitRequest       |-> "keyring_submitRequest",
      ApproveRequest      |-> "keyring_approveRequest",
      RejectRequest       |-> "keyring_rejectRequest" ]

InternalMethod ==
    [ ToggleSyncApprovals         |-> "snap.internal.toggleSynchronousApprovals",
      IsSynchronousMode           |-> "snap.internal.isSynchronousMode",
      CreateAccountWithPrivateKey |-> "snap.internal.createAccountWithPrivateKey" ]

metamaskMethods ==
    << KeyringRpcMethod.ListAccounts,
       KeyringRpcMethod.GetAccount,
       KeyringRpcMethod.FilterAccountChains,
       KeyringRpcMethod.DeleteAccount,
       KeyringRpcMethod.ListRequests,
       KeyringRpcMethod.GetRequest,
       KeyringRpcMethod.SubmitRequest,
       KeyringRpcMethod.RejectRequest >>

dappMethods ==
    << KeyringRpcMethod.ListAccounts,
       KeyringRpcMethod.GetAccount,
       KeyringRpcMethod.CreateAccount,
       KeyringRpcMethod.FilterAccountChains,
       KeyringRpcMethod.UpdateAccount,
       KeyringRpcMethod.DeleteAccount,
       KeyringRpcMethod.ExportAccount,
       KeyringRpcMethod.ListRequests,
       KeyringRpcMethod.GetRequest,
       KeyringRpcMethod.ApproveRequest,
       KeyringRpcMethod.RejectRequest,
       InternalMethod.ToggleSyncApprovals,
       InternalMethod.IsSynchronousMode,
       InternalMethod.CreateAccountWithPrivateKey >>

\* Mutant: "metamask" is given the list of the two dapp origins.
originPermissions_SameListForAll ==
    [ o \in {"metamask", "http://localhost:8000", "https://metamask.github.io"} |-> dappMethods ]

\* new Map<string, string[]>([...]): a function from the keys to the lists.
originPermissions ==
    [ o \in {"metamask", "http://localhost:8000", "https://metamask.github.io"} |->
        IF o = "metamask" THEN metamaskMethods ELSE dappMethods ]

----------------------------------------------------------------------------
(* JavaScript values used by hasPermission.  An optional value is a        *)
(* sequence of length 0 (undefined) or 1 (the value).                      *)

\* Map.prototype.get: the value of the key, undefined when there is none.
MapGet(map, key) == IF key \in DOMAIN map THEN <<map[key]>> ELSE <<>>

\* Mutant: the last element of the list is not looked at.
Includes_SkipsLast(list, x) == \E i \in 1..(Len(list) - 1) : list[i] = x

\* Array.prototype.includes on strings: strict equality with some element.
Includes(list, x) == \E i \in 1..Len(list) : list[i] = x

\* a?.includes(x): undefined when a is undefined, no property access then.
OptIncludes(opt, x) == IF opt = <<>> THEN <<>> ELSE <<Includes(opt[1], x)>>

\* a ?? d
Nullish(opt, d) == IF opt = <<>> THEN d ELSE opt[1]

\* index.ts:38-40
hasPermission(origin, method) ==
    Nullish(OptIncludes(MapGet(originPermissions, origin), method), FALSE)

----------------------------------------------------------------------------
(* Values exchanged with the collaborators *)

\* The (origin, method) pairs that onRpcRequest is called with: each custom
\* method from an origin that may call it, a keyring method from origins
\* that may call it, and pairs that are not in the table.
RpcCalls ==
    { <<"http://localhost:8000", InternalMethod.ToggleSyncApprovals>>,
      <<"http://localhost:8000", InternalMethod.IsSynchronousMode>>,
      <<"http://localhost:8000", InternalMethod.CreateAccountWithPrivateKey>>,
      <<"http://localhost:8000", KeyringRpcMethod.ListAccounts>>,
      <<"metamask", KeyringRpcMethod.ListAccounts>>,
      <<"metamask", InternalMethod.CreateAccountWithPrivateKey>>,
      <<"metamask", InternalMethod.ToggleSyncApprovals>>,
      <<"metamask", InternalMethod.IsSynchronousMode>>,
      <<"metamask", KeyringRpcMethod.CreateAccount>>,
      <<"metamask", KeyringRpcMethod.UpdateAccount>>,
      <<"metamask", KeyringRpcMethod.ExportAccount>>,
      <<"metamask", KeyringRpcMethod.ApproveRequest>>,
      <<"https://evil.example", InternalMethod.CreateAccountWithPrivateKey>>,
      <<"https://evil.example", KeyringRpcMethod.ListAccounts>> }

\* The (origin, method) pairs that onKeyringRequest is called with: a keyring
\* method and a custom method from origins that may call them, and pairs
\* that are not in the table.
KeyringCalls ==
    { <<"metamask", KeyringRpcMethod.ListAccounts>>,
      <<"http://localhost:8000", InternalMethod.CreateAccountWithPrivateKey>>,
      <<"metamask", InternalMethod.ToggleSyncApprovals>>,
      <<"metamask", InternalMethod.IsSynchronousMode>>,
      <<"metamask", InternalMethod.CreateAccountWithPrivateKey>>,
      <<"metamask", KeyringRpcMethod.CreateAccount>>,
      <<"metamask", KeyringRpcMethod.UpdateAccount>>,
      <<"metamask", KeyringRpcMethod.ExportAccount>>,
      <<"metamask", KeyringRpcMethod.ApproveRequest>>,
      <<"https://evil.example", KeyringRpcMethod.ListAccounts>> }

Handlers == {"onRpcRequest", "onKeyringRequest"}

\* State snapshots that getState() can resolve to.  What is persisted can
\* change between two loads; only SpecRace lets it, Spec keeps it fixed.
States == {"stateA", "stateB"}

FixedState == "stateA"

\* Values that snap.request({method: 'snap_getEntropy'}) can resolve to:
\* strings, as sequences of characters.
EntropyValues == { <<"0", "x", "a", "b">>, <<"c", "d">> }

\* Values a backend operation can resolve to.  SpecRace, which is about what
\* happens before the backend is reached, uses one of them.
BackendResults == {"result1", "result2"}

FixedResult == "result1"

\* Failures of the collaborators.
LoadError == [kind |-> "rejected", by |-> "getState"]

EntropyError == [kind |-> "rejected", by |-> "snap.request"]

BackendError == [kind |-> "rejected", by |-> "backend"]

NoOutcome == [kind |-> "pending"]

NoReq == [handler |-> "none", origin |-> "", method |-> ""]

NoValue == <<>>

----------------------------------------------------------------------------
(* What a call does, recorded in trace: the calls it makes to its           *)
(* collaborators and how the promises it awaits settle.                    *)

Ev(op, arg) == [op |-> op, arg |-> arg]

\* index.ts:73-76 and 110-113: logger.debug(label, JSON.stringify(request))
LogEv(h, o, m) ==
    Ev("logger.debug",
       [label |-> <<IF h = "onRpcRequest" THEN "RPC request" ELSE "Keyring request", o>>,
        request |-> [method |-> m]])

CheckEv(o, m) == Ev("hasPermission", <<o, m>>)

\* History: the calls whose own load has been rejected so far.
RejectedLoads ==
    {d \in Calls : \E i \in DOMAIN trace[d] : trace[d][i].op = "getState.rejected"}

\* index.ts:23: getState().  The argument is history: the calls whose own
\* load had already been rejected when this load starts.
GetStateEv == Ev("getState", RejectedLoads)

\* index.ts:22, 28: getKeyring() finds `keyring` set and returns it.  The
\* argument is history, as for GetStateEv.
CachedEv == Ev("getKeyring.cached", RejectedLoads)

\* index.ts:23: the rejection of getState().  `cached` is history: the value
\* of `keyring` at that moment.
LoadRejectedEv == Ev("getState.rejected", [error |-> LoadError, cached |-> keyring])

\* index.ts:59-64: the request object handed to snap.request
EntropyRequest == [method |-> "snap_getEntropy", params |-> [version |-> 1]]

\* Mutant: the prefix is left in place.
remove0x_KeepsPrefix(hex) == hex

\* @metamask/utils remove0x: drops one leading "0x" or "0X".
remove0x(hex) ==
    IF Len(hex) >= 2 /\ hex[1] = "0" /\ hex[2] \in {"x", "X"}
    THEN SubSeq(hex, 3, Len(hex))
    ELSE hex

\* index.ts:80-82 and 117-119: new Error(`Origin '..' is not allowed to call '..'`)
NotAllowedError(o, m) ==
    [kind |-> "Error", message |-> <<"Origin '", o, "' is not allowed to call '", m, "'">>]

\* index.ts:101: new MethodNotSupportedError(request.method)
MethodNotSupportedError(m) == [kind |-> "MethodNotSupportedError", method |-> m]

\* A handler whose `return` expression resolved to v.
Returned(v) == [kind |-> "returned", value |-> v]

CustomMethods ==
    { InternalMethod.ToggleSyncApprovals,
      InternalMethod.IsSynchronousMode,
      InternalMethod.CreateAccountWithPrivateKey }

----------------------------------------------------------------------------
(* Initial state: the module has been loaded, no handler has been called *)

Init ==
    /\ keyring = 0
    /\ instances = <<>>
    /\ pc = [c \in Calls |-> "idle"]
    /\ req = [c \in Calls |-> NoReq]
    /\ entropy = [c \in Calls |-> NoValue]
    /\ inst = [c \in Calls |-> 0]
    /\ raw = [c \in Calls |-> NoValue]
    /\ outcome = [c \in Calls |-> NoOutcome]
    /\ trace = [c \in Calls |-> <<>>]
    /\ perm = NoValue

\* The promise of call c settles with outcome out.
Settle(c, out) ==
    /\ pc' = [pc EXCEPT ![c] = "done"]
    /\ outcome' = [outcome EXCEPT ![c] = out]

\* Mutant: getKeyring() starts no load of its own while the load of another
\* call is pending, and waits for that call instead.
GetKeyringEnter_WaitsForPendingLoad(c, evs) ==
    IF keyring # 0
    THEN /\ trace' = [trace EXCEPT ![c] = trace[c] \o evs \o <<CachedEv>>]
         /\ pc' = [pc EXCEPT ![c] = "gotKeyring"]
         /\ inst' = [inst EXCEPT ![c] = keyring]
    ELSE IF \E d \in Calls : d # c /\ pc[d] = "awaitState"
    THEN /\ trace' = [trace EXCEPT ![c] = trace[c] \o evs]
         /\ pc' = [pc EXCEPT ![c] = "awaitCall"]
         /\ inst' = inst
    ELSE /\ trace' = [trace EXCEPT ![c] = trace[c] \o evs \o <<GetStateEv>>]
         /\ pc' = [pc EXCEPT ![c] = "awaitState"]
         /\ inst' = inst

\* Mutant: getKeyring() loads the state without looking at `keyring` first.
GetKeyringEnter_AlwaysLoads(c, evs) ==
    /\ trace' = [trace EXCEPT ![c] = trace[c] \o evs \o <<GetStateEv>>]
    /\ pc' = [pc EXCEPT ![c] = "awaitState"]
    /\ inst' = inst

\* index.ts:21-23: the part of getKeyring() up to its await, run by call c
\* after the operations evs.  With the instance cached the async function
\* returns it and the caller's await resumes in a later segment.
GetKeyringEnter(c, evs) ==
    IF keyring = 0
    THEN /\ trace' = [trace EXCEPT ![c] = trace[c] \o evs \o <<GetStateEv>>]
         /\ pc' = [pc EXCEPT ![c] = "awaitState"]
         /\ inst' = inst
    ELSE /\ trace' = [trace EXCEPT ![c] = trace[c] \o evs \o <<CachedEv>>]
         /\ pc' = [pc EXCEPT ![c] = "gotKeyring"]
         /\ inst' = [inst EXCEPT ![c] = keyring]

\* index.ts:58-59: getEntropy() up to the await of snap.request
GetEntropyEnter(c, evs) ==
    /\ trace' = [trace EXCEPT ![c] = trace[c] \o evs \o <<Ev("snap.request", EntropyRequest)>>]
    /\ pc' = [pc EXCEPT ![c] = "awaitEntropy"]
    /\ inst' = inst

\* Mutant: the default branch of the switch hands the request to the
\* keyring instead of throwing.
RpcEnter_ForwardsDefault(c, o, m) ==
    LET evs == <<LogEv("onRpcRequest", o, m), CheckEv(o, m)>> IN
    IF ~hasPermission(o, m)
    THEN /\ Settle(c, NotAllowedError(o, m))
         /\ trace' = [trace EXCEPT ![c] = evs]
         /\ inst' = inst
    ELSE IF m = InternalMethod.CreateAccountWithPrivateKey
    THEN /\ GetEntropyEnter(c, evs)
         /\ outcome' = outcome
    ELSE /\ GetKeyringEnter(c, evs)
         /\ outcome' = outcome

\* Mutant: the cases of the switch fall through, so every custom method
\* ends in the branch that derives the entropy.
RpcEnter_FallsThrough(c, o, m) ==
    LET evs == <<LogEv("onRpcRequest", o, m), CheckEv(o, m)>> IN
    IF ~hasPermission(o, m)
    THEN /\ Settle(c, NotAllowedError(o, m))
         /\ trace' = [trace EXCEPT ![c] = evs]
         /\ inst' = inst
    ELSE IF m \in CustomMethods
    THEN /\ GetEntropyEnter(c, evs)
         /\ outcome' = outcome
    ELSE /\ Settle(c, MethodNotSupportedError(m))
         /\ trace' = [trace EXCEPT ![c] = evs]
         /\ inst' = inst

\* Mutant: onRpcRequest dispatches on the method before it checks the
\* permission, so the entropy is requested for callers that are rejected.
RpcEnter_DispatchFirst(c, o, m) ==
    LET evs == <<LogEv("onRpcRequest", o, m)>> IN
    IF m = InternalMethod.CreateAccountWithPrivateKey
    THEN /\ GetEntropyEnter(c, evs)
         /\ outcome' = outcome
    ELSE IF ~hasPermission(o, m)
    THEN /\ Settle(c, NotAllowedError(o, m))
         /\ trace' = [trace EXCEPT ![c] = evs \o <<CheckEv(o, m)>>]
         /\ inst' = inst
    ELSE IF m \in {InternalMethod.ToggleSyncApprovals, InternalMethod.IsSynchronousMode}
    THEN /\ GetKeyringEnter(c, evs \o <<CheckEv(o, m)>>)
         /\ outcome' = outcome
    ELSE /\ Settle(c, MethodNotSupportedError(m))
         /\ trace' = [trace EXCEPT ![c] = evs \o <<CheckEv(o, m)>>]
         /\ inst' = inst

\* index.ts:69-103: onRpcRequest from its entry to its first await or throw
RpcEnter(c, o, m) ==
    LET evs == <<LogEv("onRpcRequest", o, m), CheckEv(o, m)>> IN
    IF ~hasPermission(o, m)
    THEN /\ Settle(c, NotAllowedError(o, m))
         /\ trace' = [trace EXCEPT ![c] = evs]
         /\ inst' = inst
    ELSE IF m \in {InternalMethod.ToggleSyncApprovals, InternalMethod.IsSynchronousMode}
    THEN /\ GetKeyringEnter(c, evs)
         /\ outcome' = outcome
    ELSE IF m = InternalMethod.CreateAccountWithPrivateKey
    THEN /\ GetEntropyEnter(c, evs)
         /\ outcome' = outcome
    ELSE /\ Settle(c, MethodNotSupportedError(m))
         /\ trace' = [trace EXCEPT ![c] = evs]
         /\ inst' = inst

\* Mutant: the permission check of onKeyringRequest is missing.
KeyringEnter_NoCheck(c, o, m) ==
    /\ GetKeyringEnter(c, <<LogEv("onKeyringRequest", o, m), CheckEv(o, m)>>)
    /\ outcome' = outcome

\* index.ts:106-123: onKeyringRequest from its entry to its await or throw
KeyringEnter(c, o, m) ==
    LET evs == <<LogEv("onKeyringRequest", o, m), CheckEv(o, m)>> IN
    IF ~hasPermission(o, m)
    THEN /\ Settle(c, NotAllowedError(o, m))
         /\ trace' = [trace EXCEPT ![c] = evs]
         /\ inst' = inst
    ELSE /\ GetKeyringEnter(c, evs)
         /\ outcome' = outcome

\* The host delivers a call: calls are numbered in the order of arrival.
OnRpcRequest(c, o, m) ==
    /\ pc[c] = "idle"
    /\ \A d \in Calls : d < c => pc[d] # "idle"
    /\ req' = [req EXCEPT ![c] = [handler |-> "onRpcRequest", origin |-> o, method |-> m]]
    /\ RpcEnter(c, o, m)
    /\ UNCHANGED <<keyring, instances, entropy, raw, perm>>

OnKeyringRequest(c, o, m) ==
    /\ pc[c] = "idle"
    /\ \A d \in Calls : d < c => pc[d] # "idle"
    /\ req' = [req EXCEPT ![c] = [handler |-> "onKeyringRequest", origin |-> o, method |-> m]]
    /\ KeyringEnter(c, o, m)
    /\ UNCHANGED <<keyring, instances, entropy, raw, perm>>

----------------------------------------------------------------------------
(* Continuations: the segments that run when an awaited promise settles *)

\* index.ts:59-66: snap.request resolved with v; getEntropy returns remove0x(v)
EntropyResolve(c, v) ==
    /\ pc[c] = "awaitEntropy"
    /\ raw' = [raw EXCEPT ![c] = v]
    /\ pc' = [pc EXCEPT ![c] = "gotEntropy"]
    /\ trace' = [trace EXCEPT ![c] = Append(trace[c], Ev("snap.request.resolved", v))]
    /\ UNCHANGED <<keyring, instances, req, entropy, inst, outcome, perm>>

\* Mutant: a rejected entropy request is replaced by a built-in secret.
EntropyReject_FallsBack(c) ==
    /\ pc[c] = "awaitEntropy"
    /\ raw' = [raw EXCEPT ![c] = <<"0", "x", "0", "0">>]
    /\ pc' = [pc EXCEPT ![c] = "gotEntropy"]
    /\ trace' = [trace EXCEPT ![c] = Append(trace[c], Ev("snap.request.rejected", EntropyError))]
    /\ UNCHANGED <<keyring, instances, req, entropy, inst, outcome, perm>>

\* index.ts:59, 96: snap.request rejected; the rejection passes through
\* getEntropy and onRpcRequest, neither of which catches it.
EntropyReject(c) ==
    /\ pc[c] = "awaitEntropy"
    /\ Settle(c, EntropyError)
    /\ trace' = [trace EXCEPT ![c] = Append(trace[c], Ev("snap.request.rejected", EntropyError))]
    /\ UNCHANGED <<keyring, instances, req, entropy, inst, raw, perm>>

\* Mutant: the handler logs the entropy it obtained before going on.
RpcAfterEntropy_LogsEntropy(c) ==
    /\ pc[c] = "gotEntropy"
    /\ entropy' = [entropy EXCEPT ![c] = remove0x(raw[c])]
    /\ GetKeyringEnter(c, <<Ev("logger.debug", [label |-> <<"entropy">>, entropy |-> remove0x(raw[c])])>>)
    /\ UNCHANGED <<keyring, instances, req, outcome, raw, perm>>

\* index.ts:96-97: `const entropy = await getEntropy()` resumes, then
\* getKeyring() is entered.
RpcAfterEntropy(c) ==
    /\ pc[c] = "gotEntropy"
    /\ entropy' = [entropy EXCEPT ![c] = remove0x(raw[c])]
    /\ GetKeyringEnter(c, <<>>)
    /\ UNCHANGED <<keyring, instances, req, outcome, raw, perm>>

\* Mutant: the instance is constructed without the second `!keyring` check.
StateResolve_NoRecheck(c, s) ==
    /\ pc[c] = "awaitState"
    /\ instances' = Append(instances, [state |-> s, by |-> c])
    /\ keyring' = Len(instances) + 1
    /\ trace' = [trace EXCEPT ![c] =
                    trace[c] \o <<Ev("getState.resolved", s), Ev("new SimpleKeyring", s)>>]
    /\ inst' = [inst EXCEPT ![c] = keyring']
    /\ pc' = [pc EXCEPT ![c] = "gotKeyring"]
    /\ UNCHANGED <<req, entropy, outcome, raw, perm>>

\* Mutant: a load that resolves when the instance exists refreshes the
\* instance with its snapshot.
StateResolve_Rehydrates(c, s) ==
    /\ pc[c] = "awaitState"
    /\ IF keyring = 0
       THEN /\ instances' = Append(instances, [state |-> s, by |-> c])
            /\ keyring' = Len(instances) + 1
            /\ trace' = [trace EXCEPT ![c] =
                            trace[c] \o <<Ev("getState.resolved", s), Ev("new SimpleKeyring", s)>>]
       ELSE /\ trace' = [trace EXCEPT ![c] = Append(trace[c], Ev("getState.resolved", s))]
            /\ instances' = [instances EXCEPT ![keyring].state = s]
            /\ keyring' = keyring
    /\ inst' = [inst EXCEPT ![c] = keyring']
    /\ pc' = [pc EXCEPT ![c] = "gotKeyring"]
    /\ UNCHANGED <<req, entropy, outcome, raw, perm>>

\* Mutant: a call whose load resolves after the instance was cached gets an
\* instance of its own, built from its snapshot, and the cache is left alone.
StateResolve_PrivateInstance(c, s) ==
    /\ pc[c] = "awaitState"
    /\ instances' = Append(instances, [state |-> s, by |-> c])
    /\ keyring' = IF keyring = 0 THEN Len(instances) + 1 ELSE keyring
    /\ trace' = [trace EXCEPT ![c] =
                    trace[c] \o <<Ev("getState.resolved", s), Ev("new SimpleKeyring", s)>>]
    /\ inst' = [inst EXCEPT ![c] = keyring']
    /\ pc' = [pc EXCEPT ![c] = "gotKeyring"]
    /\ UNCHANGED <<req, entropy, outcome, raw, perm>>

\* index.ts:23-28: getState() resolved with snapshot s
StateResolve(c, s) ==
    /\ pc[c] = "awaitState"
    /\ IF keyring = 0
       THEN /\ instances' = Append(instances, [state |-> s, by |-> c])
            /\ keyring' = Len(instances) + 1
            /\ trace' = [trace EXCEPT ![c] =
                            trace[c] \o <<Ev("getState.resolved", s), Ev("new SimpleKeyring", s)>>]
       ELSE /\ trace' = [trace EXCEPT ![c] = Append(trace[c], Ev("getState.resolved", s))]
            /\ UNCHANGED <<instances, keyring>>
    /\ inst' = [inst EXCEPT ![c] = keyring']
    /\ pc' = [pc EXCEPT ![c] = "gotKeyring"]
    /\ UNCHANGED <<req, entropy, outcome, raw, perm>>

\* Mutant: a rejected load resets the cache.
StateReject_ClearsCache(c) ==
    /\ pc[c] = "awaitState"
    /\ Settle(c, LoadError)
    /\ trace' = [trace EXCEPT ![c] = Append(trace[c], LoadRejectedEv)]
    /\ keyring' = 0
    /\ UNCHANGED <<instances, req, entropy, inst, raw, perm>>

\* Mutant: the rejected load is remembered in `keyring`, as a cache of the
\* pending construction would.
StateReject_CachesFailure(c) ==
    /\ pc[c] = "awaitState"
    /\ Settle(c, LoadError)
    /\ trace' = [trace EXCEPT ![c] = Append(trace[c], LoadRejectedEv)]
    /\ keyring' = IF keyring = 0 THEN -1 ELSE keyring
    /\ UNCHANGED <<instances, req, entropy, inst, raw, perm>>

\* index.ts:23: getState() rejected; getKeyring and the handler reject with it
StateReject(c) ==
    /\ pc[c] = "awaitState"
    /\ Settle(c, LoadError)
    /\ trace' = [trace EXCEPT ![c] = Append(trace[c], LoadRejectedEv)]
    /\ UNCHANGED <<keyring, instances, req, entropy, inst, raw, perm>>

\* Mutant: both handlers dispatch every permitted method, the custom methods
\* to the operations of the keyring and all others to handleKeyringRequest.
BackendCall_CrossDispatch(c) ==
    IF req[c].method = InternalMethod.ToggleSyncApprovals
    THEN Ev("toggleSyncApprovals", [keyring |-> inst[c]])
    ELSE IF req[c].method = InternalMethod.IsSynchronousMode
    THEN Ev("isSynchronousMode", [keyring |-> inst[c]])
    ELSE IF req[c].method = InternalMethod.CreateAccountWithPrivateKey
    THEN Ev("createAccount", [keyring |-> inst[c], privateKey |-> entropy[c]])
    ELSE Ev("handleKeyringRequest", [keyring |-> inst[c], request |-> [method |-> req[c].method]])

\* The backend operation the handler invokes on the instance it obtained:
\* index.ts:88, 92, 97 and 123.
BackendCall(c) ==
    IF req[c].handler = "onKeyringRequest"
    THEN Ev("handleKeyringRequest", [keyring |-> inst[c], request |-> [method |-> req[c].method]])
    ELSE IF req[c].method = InternalMethod.ToggleSyncApprovals
    THEN Ev("toggleSyncApprovals", [keyring |-> inst[c]])
    ELSE IF req[c].method = InternalMethod.IsSynchronousMode
    THEN Ev("isSynchronousMode", [keyring |-> inst[c]])
    ELSE Ev("createAccount", [keyring |-> inst[c], privateKey |-> entropy[c]])

\* `await getKeyring()` resumes and the backend operation is invoked
Invoke(c) ==
    /\ pc[c] = "gotKeyring"
    /\ trace' = [trace EXCEPT ![c] = Append(trace[c], BackendCall(c))]
    /\ pc' = [pc EXCEPT ![c] = "awaitBackend"]
    /\ UNCHANGED <<keyring, instances, req, entropy, inst, outcome, raw, perm>>

\* Mutant: the handler awaits the backend but forgets to return its result.
HandlerResult_ReturnsNothing(r) == Returned("undefined")

\* The handler returns the backend's promise: its result is the call's result
HandlerResult(r) == Returned(r)

\* @metamask/keyring-api handleKeyringRequest: it dispatches the methods of
\* KeyringRpcMethod to the keyring and throws MethodNotSupportedError for any
\* other method name.  The other backend operations take no method name.
BackendSupports(c) ==
    \/ req[c].handler = "onRpcRequest"
    \/ req[c].method \in {KeyringRpcMethod[k] : k \in DOMAIN KeyringRpcMethod}

BackendFailure(c) ==
    IF BackendSupports(c) THEN BackendError ELSE MethodNotSupportedError(req[c].method)

BackendResolve(c, r) ==
    /\ pc[c] = "awaitBackend"
    /\ BackendSupports(c)
    /\ Settle(c, HandlerResult(r))
    /\ trace' = [trace EXCEPT ![c] = Append(trace[c], Ev("backend.resolved", r))]
    /\ UNCHANGED <<keyring, instances, req, entropy, inst, raw, perm>>

BackendReject(c) ==
    /\ pc[c] = "awaitBackend"
    /\ Settle(c, BackendFailure(c))
    /\ trace' = [trace EXCEPT ![c] = Append(trace[c], Ev("backend.rejected", BackendFailure(c)))]
    /\ UNCHANGED <<keyring, instances, req, entropy, inst, raw, perm>>

----------------------------------------------------------------------------
(* Specification of the handlers *)

Next ==
    \/ \E c \in 1..MaxCalls, r \in RpcCalls : OnRpcRequest(c, r[1], r[2])
    \/ \E c \in 1..MaxCalls, r \in KeyringCalls : OnKeyringRequest(c, r[1], r[2])
    \/ \E c \in Calls, v \in EntropyValues : EntropyResolve(c, v)
    \/ \E c \in Calls : EntropyReject(c)
    \/ \E c \in Calls : RpcAfterEntropy(c)
    \/ \E c \in Calls : StateResolve(c, FixedState)
    \/ \E c \in Calls : StateReject(c)
    \/ \E c \in Calls : Invoke(c)
    \/ \E c \in Calls, r \in BackendResults : BackendResolve(c, r)
    \/ \E c \in Calls : BackendReject(c)

Spec == Init /\ [][Next]_vars

----------------------------------------------------------------------------
(* Specification of progress: the handlers with every await they start     *)
(* settling.  One call of each kind of path is delivered: through entropy, *)
(* load and backend; to the default branch; rejected; and forwarded to the *)
(* library with a method it does and does not support.                     *)

LiveRpcCalls ==
    { <<"http://localhost:8000", InternalMethod.CreateAccountWithPrivateKey>>,
      <<"http://localhost:8000", KeyringRpcMethod.ListAccounts>>,
      <<"https://evil.example", InternalMethod.CreateAccountWithPrivateKey>> }

LiveKeyringCalls ==
    { <<"metamask", KeyringRpcMethod.ListAccounts>>,
      <<"http://localhost:8000", InternalMethod.CreateAccountWithPrivateKey>> }

FixedEntropy == <<"0", "x", "a", "b">>

\* index.ts:23, 59, 88-97, 123: the segments that continue call c after one
\* of its awaits: the settlement of the promise it awaits, and the resumption
\* of the handler after an async function of this file returned.
Continue(c) ==
    \/ EntropyResolve(c, FixedEntropy)
    \/ EntropyReject(c)
    \/ RpcAfterEntropy(c)
    \/ StateResolve(c, FixedState)
    \/ StateReject(c)
    \/ Invoke(c)
    \/ BackendResolve(c, FixedResult)
    \/ BackendReject(c)

NextLive ==
    \/ \E c \in 1..MaxCalls, r \in LiveRpcCalls : OnRpcRequest(c, r[1], r[2])
    \/ \E c \in 1..MaxCalls, r \in LiveKeyringCalls : OnKeyringRequest(c, r[1], r[2])
    \/ \E c \in Calls : Continue(c)

\* Every await a call starts settles, and a resumed handler runs: the job
\* queue of the engine leaves no runnable continuation behind.
Fairness == \A c \in Calls : WF_vars(Continue(c))

SpecLive == Init /\ [][NextLive]_vars /\ Fairness

----------------------------------------------------------------------------
(* Specification of the races on getKeyring(): every call delivered is an  *)
(* authorized one that goes straight to getKeyring(), and the backend      *)
(* operation that follows resolves; its failures are part of Spec.         *)

NextRace ==
    \/ \E c \in 1..MaxGetters :
           OnRpcRequest(c, "http://localhost:8000", InternalMethod.IsSynchronousMode)
    \/ \E c \in 1..MaxGetters :
           OnKeyringRequest(c, "metamask", KeyringRpcMethod.ListAccounts)
    \/ \E c \in Calls, s \in States : StateResolve(c, s)
    \/ \E c \in Calls : StateReject(c)
    \/ \E c \in Calls : Invoke(c)
    \/ \E c \in Calls : BackendResolve(c, FixedResult)

SpecRace == Init /\ [][NextRace]_vars

----------------------------------------------------------------------------
(* Specification of hasPermission as a function: it is evaluated on every  *)
(* pair of an origin and a method below.                                   *)

AllOrigins == (DOMAIN originPermissions) \cup {"https://evil.example", "", "METAMASK"}

AllMethods ==
    {KeyringRpcMethod[k] : k \in DOMAIN KeyringRpcMethod}
        \cup {InternalMethod[k] : k \in DOMAIN InternalMethod}
        \cup {"", "keyring_", "ListAccounts"}

InitPerm ==
    /\ keyring = 0
    /\ instances = <<>>
    /\ pc = [c \in Calls |-> "idle"]
    /\ req = [c \in Calls |-> NoReq]
    /\ entropy = [c \in Calls |-> NoValue]
    /\ inst = [c \in Calls |-> 0]
    /\ raw = [c \in Calls |-> NoValue]
    /\ outcome = [c \in Calls |-> NoOutcome]
    /\ trace = [c \in Calls |-> <<>>]
    /\ perm = NoValue

Evaluate(o, m) ==
    /\ perm' = <<[origin |-> o, method |-> m, result |-> hasPermission(o, m)]>>
    /\ UNCHANGED callVars

NextPerm == \E o \in AllOrigins, m \in AllMethods : Evaluate(o, m)

SpecPerm == InitPerm /\ [][NextPerm]_vars

----------------------------------------------------------------------------
(* Vocabulary of the properties *)

Range(f) == {f[i] : i \in DOMAIN f}

OpsOf(c) == {trace[c][i].op : i \in DOMAIN trace[c]}

Count(c, op) == Cardinality({i \in DOMAIN trace[c] : trace[c][i].op = op})

BackendOps == {"handleKeyringRequest", "toggleSyncApprovals", "isSynchronousMode", "createAccount"}

Started(c) == pc[c] # "idle"

\* The pair is in the table: the origin is a key and the method is in its list.
InTable(o, m) == o \in DOMAIN originPermissions /\ m \in Range(originPermissions[o])

Failed(c) == pc[c] = "done" /\ outcome[c].kind # "returned"

\* C1: a call of either handler whose (origin, method) pair is not permitted
\* fails, and it loads no state, constructs no instance, requests no entropy
\* and invokes no backend operation; while only such calls have been received
\* no instance has been constructed.
C1_UnauthorizedTouchesNothing ==
    /\ \A c \in Calls :
         Started(c) /\ ~InTable(req[c].origin, req[c].method) =>
            /\ Failed(c)
            /\ outcome[c] = NotAllowedError(req[c].origin, req[c].method)
            /\ OpsOf(c) \cap ({"getState", "new SimpleKeyring", "snap.request"} \cup BackendOps) = {}
            /\ inst[c] = 0
    /\ (\A c \in Calls : Started(c) => ~InTable(req[c].origin, req[c].method)) =>
            instances = <<>> /\ keyring = 0

\* Both handlers have rejected a call, and nothing has been constructed.
C1_Witness ==
    /\ \E c, d \in Calls :
         /\ req[c].handler = "onRpcRequest" /\ req[d].handler = "onKeyringRequest"
         /\ Failed(c) /\ Failed(d)
         /\ ~InTable(req[c].origin, req[c].method)
         /\ ~InTable(req[d].origin, req[d].method)
    /\ instances = <<>>

\* C2: hasPermission(origin, method) is true exactly when origin is a key of
\* originPermissions and method is an element of that origin's list; for an
\* origin that is not a key, the empty string included, it is false for
\* every method; the result is always a boolean, never an error.
C2_HasPermissionIsMembership ==
    perm # NoValue =>
        /\ perm[1].result \in BOOLEAN
        /\ perm[1].result = InTable(perm[1].origin, perm[1].method)
        /\ perm[1].origin \notin DOMAIN originPermissions => perm[1].result = FALSE

\* hasPermission has been evaluated for the empty origin and a method that
\* the other origins may call.
C2_Witness ==
    /\ perm # NoValue
    /\ perm[1].origin = ""
    /\ perm[1].method = KeyringRpcMethod.RejectRequest
    /\ perm[1].result = FALSE

\* C3: when several getKeyring() calls overlap on the state load and every
\* load succeeds, SimpleKeyring is constructed exactly once and all of these
\* calls get the same instance.
C3_OneInstance ==
    /\ Len(instances) <= 1
    /\ \A c \in Calls : inst[c] # 0 => Len(instances) = 1 /\ inst[c] = 1 /\ keyring = 1
    /\ \A c, d \in Calls : inst[c] # 0 /\ inst[d] # 0 => inst[c] = inst[d]

\* Two calls both started a load while nothing was cached, both loads
\* succeeded, and both calls hold an instance.
C3_Witness ==
    \E c, d \in Calls :
        /\ c # d
        /\ Count(c, "getState") = 1 /\ Count(d, "getState") = 1
        /\ Count(c, "getState.resolved") = 1 /\ Count(d, "getState.resolved") = 1
        /\ \A e \in Calls : Count(e, "getState.rejected") = 0
        /\ inst[c] # 0 /\ inst[d] # 0

\* The getState() calls made so far, by all handler calls.
TotalLoads ==
    Cardinality(UNION { {<<c, i>> : i \in {j \in DOMAIN trace[c] : trace[c][j].op = "getState"}} :
                        c \in Calls })

\* The original C4: over the whole lifetime getState is performed at most once.
C4_AtMostOneLoad == TotalLoads <= 1

\* C4, amended: a getKeyring() call performs at most one state load, and a
\* load is started only while no instance is cached; calls that enter
\* getKeyring() before the instance is cached each perform their own load.
C4_NoLoadOnceCached ==
    [][ /\ \A c \in Calls : (Count(c, "getState"))' <= 1
        /\ keyring # 0 => TotalLoads' = TotalLoads ]_vars

\* Two loads were performed, and a call that came once the instance was
\* cached got it without a load.
C4_Witness ==
    /\ TotalLoads = 2
    /\ keyring # 0
    /\ \E c \in Calls : inst[c] = keyring /\ Count(c, "getState") = 0

\* Call c enters getKeyring() in this step.
EntersGetKeyring(c) ==
    /\ pc[c] \in {"idle", "gotEntropy"}
    /\ pc'[c] \in {"awaitState", "gotKeyring"}

\* C5: when a state load fails while no instance is cached, the handler call
\* fails with that very failure and nothing is cached; a getKeyring() call
\* made afterwards starts a load of its own, and when that load succeeds the
\* instance is constructed and cached.
C5_LoadFailureIsNotCached ==
    [][ \A c \in Calls :
          /\ (pc[c] = "awaitState" /\ keyring = 0 /\ "getState.rejected" \in OpsOf(c)') =>
                /\ pc'[c] = "done" /\ outcome'[c] = LoadError
                /\ keyring' = 0 /\ instances' = instances
          /\ ((\E d \in Calls : outcome[d] = LoadError) /\ keyring = 0 /\ EntersGetKeyring(c)) =>
                /\ pc'[c] = "awaitState"
                /\ (Count(c, "getState"))' = Count(c, "getState") + 1
          /\ ((\E d \in Calls : outcome[d] = LoadError) /\ keyring = 0
                 /\ pc[c] = "awaitState" /\ "getState.resolved" \in OpsOf(c)') =>
                /\ Len(instances') = Len(instances) + 1
                /\ keyring' = Len(instances')
                /\ inst'[c] = keyring' ]_vars

\* The load of call c failed; call d started its load after that, and the
\* instance that is cached was constructed by d.
C5_Witness ==
    \E c, d \in Calls :
        /\ outcome[c] = LoadError
        /\ \E i \in DOMAIN trace[d] : trace[d][i].op = "getState" /\ c \in trace[d][i].arg
        /\ keyring = 1
        /\ instances[1].by = d
        /\ inst[d] = 1

Collaborators ==
    {"logger.debug", "getState", "new SimpleKeyring", "snap.request"} \cup BackendOps

\* The original C6: a call from an origin that is not in the table ends in
\* the unauthorized outcome with no call to any collaborator, logging
\* included, the permission check being the first thing the handler does.
C6_NoCollaboratorAtAll ==
    \A c \in Calls :
        Started(c) /\ req[c].origin \notin DOMAIN originPermissions =>
            /\ outcome[c] = NotAllowedError(req[c].origin, req[c].method)
            /\ OpsOf(c) \cap Collaborators = {}
            /\ trace[c][1].op = "hasPermission"

\* C6, amended: a call from an origin that is not in the table ends in the
\* unauthorized outcome having made exactly one collaborator call, the
\* logger.debug call with the origin and the request that the handler makes
\* first; the permission check comes right after it, and persistence,
\* backend and host entropy service are not called.
C6_OnlyLoggedBeforeRejection ==
    \A c \in Calls :
        Started(c) /\ req[c].origin \notin DOMAIN originPermissions =>
            /\ pc[c] = "done"
            /\ outcome[c] = NotAllowedError(req[c].origin, req[c].method)
            /\ trace[c] = << LogEv(req[c].handler, req[c].origin, req[c].method),
                             CheckEv(req[c].origin, req[c].method) >>
            /\ inst[c] = 0

\* A call from an unknown origin was rejected while an instance was cached.
C6_Witness ==
    /\ keyring # 0
    /\ \E c \in Calls :
         /\ req[c].origin = "https://evil.example"
         /\ req[c].method = InternalMethod.CreateAccountWithPrivateKey
         /\ Failed(c)
         /\ \E d \in Calls : d < c /\ inst[d] # 0

\* C7: every entropy request sent to the host carries the salt "Signing key".
C7_EntropySalt ==
    \A c \in Calls : \A i \in DOMAIN trace[c] :
        trace[c][i].op = "snap.request" =>
            /\ "salt" \in DOMAIN trace[c][i].arg.params
            /\ trace[c][i].arg.params.salt = "Signing key"

\* Call c is an onRpcRequest call for createAccountWithPrivateKey that the
\* table permits.
IsCreateCall(c) ==
    /\ req[c].handler = "onRpcRequest"
    /\ req[c].method = InternalMethod.CreateAccountWithPrivateKey
    /\ InTable(req[c].origin, req[c].method)

\* The positions in the trace of call c at which op occurs.
At(c, op) == {i \in DOMAIN trace[c] : trace[c][i].op = op}

\* A string without its leading "0x", if it has one.
Without0x(str) ==
    IF Len(str) >= 2 /\ SubSeq(str, 1, 2) = <<"0", "x">>
    THEN [i \in 1..(Len(str) - 2) |-> str[i + 2]]
    ELSE str

\* C8: an authorized createAccountWithPrivateKey call obtains the entropy
\* from the host before it obtains the backend instance; createAccount is
\* invoked once, with the host's value less its "0x" prefix as privateKey;
\* and the handler returns what createAccount returned.
C8_CreateAccountFromEntropy ==
    \A c \in Calls : IsCreateCall(c) =>
        /\ Count(c, "snap.request") <= 1 /\ Count(c, "createAccount") <= 1
        /\ \A i \in At(c, "getState") \cup At(c, "createAccount") :
              \E j \in At(c, "snap.request.resolved") : j < i
        /\ inst[c] # 0 => At(c, "snap.request.resolved") # {}
        /\ \A i \in At(c, "createAccount") :
              \E j \in At(c, "snap.request.resolved") :
                 /\ trace[c][i].arg.privateKey = Without0x(trace[c][j].arg)
                 /\ trace[c][i].arg.keyring = keyring
        /\ \A i \in At(c, "backend.resolved") :
              /\ Count(c, "createAccount") = 1
              /\ outcome[c] = Returned(trace[c][i].arg)
        /\ outcome[c].kind = "returned" => At(c, "backend.resolved") # {}
        /\ OpsOf(c) \cap (BackendOps \ {"createAccount"}) = {}

\* The host answered "0xab", createAccount got "ab" and its result was
\* returned, the state having been loaded after the entropy was obtained.
C8_Witness ==
    \E c \in Calls :
        /\ IsCreateCall(c)
        /\ raw[c] = <<"0", "x", "a", "b">>
        /\ \E i \in At(c, "createAccount") : trace[c][i].arg.privateKey = <<"a", "b">>
        /\ At(c, "getState") # {}
        /\ outcome[c] = Returned("result2")

\* C9: when the host rejects the entropy request of an authorized
\* createAccountWithPrivateKey call, the call fails with that rejection,
\* createAccount is not invoked for it, and no other value takes the place
\* of the entropy.
C9_EntropyFailurePropagates ==
    \A c \in Calls : \A i \in At(c, "snap.request.rejected") :
        /\ pc[c] = "done"
        /\ outcome[c] = trace[c][i].arg
        /\ i = Len(trace[c])
        /\ Count(c, "createAccount") = 0
        /\ raw[c] = NoValue /\ entropy[c] = NoValue
        /\ inst[c] = 0

\* The entropy request of one call was rejected; another call created an
\* account.
C9_Witness ==
    \E c, d \in Calls :
        /\ IsCreateCall(c) /\ IsCreateCall(d)
        /\ At(c, "snap.request.rejected") # {}
        /\ outcome[d].kind = "returned"

\* C10: an onRpcRequest call that the table permits and whose method is not
\* one of the three custom methods fails with MethodNotSupportedError naming
\* the method, without obtaining the instance, invoking a backend operation
\* or requesting entropy.
C10_UnmatchedMethod ==
    \A c \in Calls :
        ( /\ Started(c)
          /\ req[c].handler = "onRpcRequest"
          /\ InTable(req[c].origin, req[c].method)
          /\ req[c].method \notin
                {"snap.internal.toggleSynchronousApprovals",
                 "snap.internal.isSynchronousMode",
                 "snap.internal.createAccountWithPrivateKey"} ) =>
            /\ pc[c] = "done"
            /\ outcome[c] = MethodNotSupportedError(req[c].method)
            /\ OpsOf(c) \cap ({"getState", "new SimpleKeyring", "snap.request"} \cup BackendOps) = {}
            /\ inst[c] = 0

\* Both origins that may call keyring_listAccounts sent it to onRpcRequest.
C10_Witness ==
    \E c, d \in Calls :
        /\ req[c] = [handler |-> "onRpcRequest", origin |-> "metamask",
                     method |-> KeyringRpcMethod.ListAccounts]
        /\ req[d] = [handler |-> "onRpcRequest", origin |-> "http://localhost:8000",
                     method |-> KeyringRpcMethod.ListAccounts]
        /\ outcome[c].kind = "MethodNotSupportedError"
        /\ outcome[d].kind = "MethodNotSupportedError"

\* Call c is an onKeyringRequest call that the table permits.
IsKeyringCall(c) ==
    /\ req[c].handler = "onKeyringRequest"
    /\ InTable(req[c].origin, req[c].method)

\* C11: an authorized onKeyringRequest call, whatever its method, obtains the
\* instance and hands the request, unmodified, to handleKeyringRequest once;
\* its outcome is the result or the failure of handleKeyringRequest; no other
\* operation is chosen by the method name.
C11_KeyringRequestForwarded ==
    \A c \in Calls : IsKeyringCall(c) =>
        /\ Count(c, "handleKeyringRequest") <= 1
        /\ pc[c] \in {"awaitBackend", "done"} /\ inst[c] # 0 => Count(c, "handleKeyringRequest") = 1
        /\ \A i \in At(c, "handleKeyringRequest") :
              /\ trace[c][i].arg.request = [method |-> req[c].method]
              /\ trace[c][i].arg.keyring = keyring
              /\ inst[c] = keyring
        /\ OpsOf(c) \cap ((BackendOps \ {"handleKeyringRequest"}) \cup {"snap.request"}) = {}
        /\ \A i \in At(c, "backend.resolved") : outcome[c] = Returned(trace[c][i].arg)
        /\ \A i \in At(c, "backend.rejected") : outcome[c] = trace[c][i].arg
        /\ (pc[c] = "done" /\ inst[c] # 0) =>
              At(c, "backend.resolved") \cup At(c, "backend.rejected") # {}

\* A keyring method and a custom method were both forwarded: the first one
\* returned the backend's result, the second one failed with its failure.
C11_Witness ==
    \E c, d \in Calls :
        /\ IsKeyringCall(c) /\ IsKeyringCall(d)
        /\ req[c].method = KeyringRpcMethod.ListAccounts
        /\ req[d].method = InternalMethod.CreateAccountWithPrivateKey
        /\ outcome[c] = Returned("result2")
        /\ At(d, "handleKeyringRequest") # {}
        /\ Failed(d)

KeyringMethods == {KeyringRpcMethod[k] : k \in DOMAIN KeyringRpcMethod}

C13_EntropyOnlyForCreate ==
    \A c \in Calls :
        /\ Count(c, "snap.request") <= 1
        /\ Count(c, "snap.request") = 1 => IsCreateCall(c)
        /\ ~IsCreateCall(c) => raw[c] = NoValue /\ entropy[c] = NoValue

\* One call created an account from the entropy, another one completed
\* toggleSynchronousApprovals without any.
C13_Witness ==
    \E c, d \in Calls :
        /\ IsCreateCall(c) /\ Count(c, "snap.request") = 1 /\ outcome[c].kind = "returned"
        /\ req[d].method = InternalMethod.ToggleSyncApprovals
        /\ outcome[d].kind = "returned"
        /\ Count(d, "snap.request") = 0

\* The methods that "metamask" may call, by name.
MetamaskAllowed ==
    { "keyring_listAccounts", "keyring_getAccount", "keyring_filterAccountChains",
      "keyring_deleteAccount", "keyring_listRequests", "keyring_getRequest",
      "keyring_submitRequest", "keyring_rejectRequest" }

\* C14: a call from origin "metamask", on either handler, with a method
\* outside ListAccounts, GetAccount, FilterAccountChains, DeleteAccount,
\* ListRequests, GetRequest, SubmitRequest, RejectRequest ends in the
\* unauthorized outcome; "metamask" never causes an entropy request or
\* toggleSyncApprovals.
C14_MetamaskRestricted ==
    \A c \in Calls : (Started(c) /\ req[c].origin = "metamask") =>
        /\ req[c].method \notin MetamaskAllowed =>
              /\ pc[c] = "done"
              /\ outcome[c] = NotAllowedError("metamask", req[c].method)
              /\ inst[c] = 0
        /\ OpsOf(c) \cap {"snap.request", "toggleSyncApprovals", "createAccount"} = {}
        /\ raw[c] = NoValue

\* "metamask" was refused CreateAccount on onKeyringRequest and
\* createAccountWithPrivateKey on onRpcRequest.
C14_Witness ==
    \E c, d \in Calls :
        /\ req[c] = [handler |-> "onKeyringRequest", origin |-> "metamask",
                     method |-> KeyringRpcMethod.CreateAccount]
        /\ req[d] = [handler |-> "onRpcRequest", origin |-> "metamask",
                     method |-> InternalMethod.CreateAccountWithPrivateKey]
        /\ outcome[c].kind = "Error" /\ outcome[d].kind = "Error"

\* C15: once an instance is cached the cached reference never changes, and
\* every getKeyring() call that begins afterwards returns that instance
\* without a state load.
C15_CacheIsStable ==
    [][ keyring # 0 =>
          /\ keyring' = keyring
          /\ instances' = instances
          /\ \A c \in Calls : EntersGetKeyring(c) =>
                /\ pc'[c] = "gotKeyring"
                /\ inst'[c] = keyring
                /\ (Count(c, "getState"))' = 0 ]_vars

\* After the instance was cached one call got it without a load, and a load
\* started earlier resolved without replacing it.
C15_Witness ==
    /\ keyring = 1
    /\ Len(instances) = 1
    /\ \E c, d \in Calls :
         /\ c # d
         /\ At(c, "getKeyring.cached") # {} /\ inst[c] = 1
         /\ At(d, "getState.resolved") # {} /\ At(d, "new SimpleKeyring") = {} /\ inst[d] = 1
         /\ pc[c] = "done" /\ pc[d] = "done"

\* The step appends the event `op` to the trace of call c.
Appends(c, op) == (Count(c, op))' = Count(c, op) + 1

\* C18: a load that fails while an instance is cached fails its own call with
\* the load's failure and leaves the cached instance in place; calls that
\* begin afterwards get that instance.
C18_FailedLoadKeepsCache ==
    [][ \A c \in Calls :
          /\ (Appends(c, "getState.rejected") /\ keyring # 0) =>
                /\ pc'[c] = "done"
                /\ outcome'[c] = LoadError
                /\ keyring' = keyring
                /\ instances' = instances
          /\ (EntersGetKeyring(c) /\ \E b \in RejectedLoads :
                  \E i \in At(b, "getState.rejected") : trace[b][i].arg.cached # 0) =>
                /\ keyring # 0
                /\ inst'[c] = keyring
                /\ pc'[c] = "gotKeyring" ]_vars

\* A cached the instance while B's load was pending, B's load then failed,
\* and C, which began after that, got A's instance and returned.
C18_Witness ==
    \E a, b, d \in Calls :
       /\ keyring = 1 /\ instances[1].by = a
       /\ outcome[b] = LoadError
       /\ \E i \in At(b, "getState.rejected") : trace[b][i].arg.cached = 1
       /\ \E i \in At(b, "getState") : trace[b][i].arg = {}
       /\ \E i \in At(d, "getKeyring.cached") : b \in trace[d][i].arg
       /\ inst[d] = 1
       /\ pc[d] = "done" /\ outcome[d].kind = "returned"

\* The calls whose load has resolved.
ResolvedLoads == {d \in Calls : At(d, "getState.resolved") # {}}

\* C19: the instance is constructed from the snapshot of the load that
\* resolves first; a snapshot that arrives later is discarded and its call
\* gets the existing instance.
C19_FirstSnapshotWins ==
    [][ /\ \A c \in Calls : Appends(c, "getState.resolved") =>
              LET s == trace'[c][Len(trace'[c])].arg IN
              IF ResolvedLoads = {}
              THEN /\ instances' = <<[state |-> s, by |-> c]>>
                   /\ keyring' = 1
                   /\ inst'[c] = 1
              ELSE /\ instances' = instances
                   /\ keyring' = keyring
                   /\ inst'[c] = keyring
                   /\ (Count(c, "new SimpleKeyring"))' = 0
        /\ instances # <<>> => instances' = instances ]_vars

\* The call that began second resolved first with "stateB"; the first call's
\* load resolved later with "stateA" and was discarded.
C19_Witness ==
    /\ instances = <<[state |-> "stateB", by |-> 2]>>
    /\ \E i \in At(1, "getState.resolved") : trace[1][i].arg = "stateA"
    /\ At(1, "new SimpleKeyring") = {}
    /\ inst[1] = 1 /\ inst[2] = 1
    /\ pc[1] = "done" /\ pc[2] = "done"

\* A call that has begun and has not settled.
Pending(c) == pc[c] \notin {"idle", "done"}

\* C16: every call that begins settles, with one outcome that never changes
\* afterwards, and while it is pending its own next step can be taken
\* whatever the other calls are doing.
C16_EveryCallSettles ==
    /\ \A c \in Calls : Pending(c) ~> (pc[c] = "done" /\ outcome[c] # NoOutcome)
    /\ [][ \A c \in Calls : pc[c] = "done" =>
              /\ pc'[c] = "done"
              /\ outcome'[c] = outcome[c]
              /\ trace'[c] = trace[c] ]_vars
    /\ [](\A c \in Calls : (pc[c] = "done") <=> (outcome[c] # NoOutcome))
    /\ [](\A c \in Calls : Pending(c) => ENABLED Continue(c))

\* Two calls whose loads overlapped have both settled, one with a result and
\* one with the failure of its load.
C16_Witness ==
    \E c, d \in Calls :
       /\ c # d
       /\ \E i \in At(c, "getState") : TRUE
       /\ \E i \in At(d, "getState") : TRUE
       /\ pc[c] = "done" /\ outcome[c].kind = "returned"
       /\ pc[d] = "done" /\ outcome[d] = LoadError

\* The errors this layer constructs itself.
RaisedHere(c) == outcome[c].kind \in {"Error", "MethodNotSupportedError"}

\* C17: the entropy reaches the privateKey argument of createAccount and
\* nothing else.  The one logger call of a handler is made first, before any
\* entropy is requested, and is a function of the request alone; the errors
\* this layer raises are functions of the origin and the method alone; of
\* the operations on the backend only createAccount is handed a privateKey.
C17_EntropyOnlyToCreateAccount ==
    \A c \in Calls : Started(c) =>
        /\ At(c, "logger.debug") = {1}
        /\ trace[c][1] = LogEv(req[c].handler, req[c].origin, req[c].method)
        /\ \A i \in At(c, "snap.request") : i > 1
        /\ RaisedHere(c) =>
              outcome[c] \in { NotAllowedError(req[c].origin, req[c].method),
                               MethodNotSupportedError(req[c].method) }
        /\ \A i \in DOMAIN trace[c] : trace[c][i].op \in BackendOps =>
              IF trace[c][i].op = "createAccount"
              THEN /\ DOMAIN trace[c][i].arg = {"keyring", "privateKey"}
                   /\ trace[c][i].arg.privateKey = remove0x(raw[c])
              ELSE "privateKey" \notin DOMAIN trace[c][i].arg

\* One call obtained entropy, handed it to createAccount and returned;
\* another call that asked for the same method was rejected with an error
\* of this layer.
C17_Witness ==
    \E c, d \in Calls :
       /\ raw[c] = <<"c", "d">>
       /\ \E i \in At(c, "createAccount") : trace[c][i].arg.privateKey = <<"c", "d">>
       /\ outcome[c].kind = "returned"
       /\ req[d].method = InternalMethod.CreateAccountWithPrivateKey
       /\ outcome[d].kind = "Error"

====
